---- MODULE Spec2Model ----
(***************************************************************************)
(* A model of scripts/generate_puzzle.py: the slot extractor, the letter   *)
(* index, the backtracking solver (CrosswordSolver) and the tier loop of   *)
(* generate_puzzle.                                                        *)
(*                                                                         *)
(* Python lists are sequences; the code's 0-based list indices are kept    *)
(* as they are and read through At(list, i).  A grid coordinate is the     *)
(* pair <<row, col>> with 0 <= row, col < GRID_SIZE.  A word is a sequence *)
(* of one-letter strings.                                                  *)
(***************************************************************************)
EXTENDS Integers, Sequences, FiniteSets, TLC

VARIABLES
    layout,          \* the 5x5 block pattern handed to extract_slots
    template_id,     \* CrosswordSolver.template_id
    words_by_length, \* CrosswordSolver.words_by_length: length -> set of words
    letter_index,    \* CrosswordSolver.letter_index: length -> pos -> letter -> set
    slots,           \* CrosswordSolver.slots (after sort_slots_by_difficulty)
    grid,            \* CrosswordSolver.grid
    used_words,      \* CrosswordSolver.used_words
    attempts,        \* CrosswordSolver.attempts
    backtracks,      \* CrosswordSolver.backtracks
    start_time,      \* CrosswordSolver.start_time
    MAX_ATTEMPTS,    \* CrosswordSolver.MAX_ATTEMPTS
    now,             \* the wall clock read by time.time()
    stack,           \* the activation records of solve, innermost last
    pc,              \* where get_solution stands
    ret,             \* the value a solve activation has just returned, or None
    success,         \* the value solve() returned to get_solution
    solution,        \* what get_solution returned
    reason,          \* the failure reason get_solution printed
    breached,        \* history: the limit checks of this run that have failed
    placed,          \* history: the word place_word last wrote into each slot
    extracted,       \* the list extract_slots returned for layout
    words_ordered,   \* generate_puzzle: the word list, most common words first
    tier,            \* generate_puzzle: tier
    attempt,         \* generate_puzzle: attempt
    final_tier,      \* generate_puzzle: final_tier
    gen_grid,        \* generate_puzzle: grid
    gen_pc,          \* where generate_puzzle stands
    puzzle,          \* what generate_puzzle returned
    log,             \* history: the solver attempts generate_puzzle has started
    called,          \* history: the calls generate_puzzle made behind its loop
    seed,            \* the seed given to random.seed, or None (any shuffle)
    rng,             \* the number of random.uniform draws since random.seed
    hash_seed,       \* the string hash seed of the process (PYTHONHASHSEED)
    run,             \* which of two equally seeded solver runs is running
    first_outcome    \* history: what the first of the two runs ended with

solverVars == <<template_id, words_by_length, letter_index, slots, grid,
                used_words, attempts, backtracks, start_time, MAX_ATTEMPTS,
                stack, pc, ret, success, solution, reason, breached, placed>>

vars == <<layout, extracted, now, solverVars, words_ordered, tier, attempt,
          final_tier, gen_grid, gen_pc, puzzle, log, called, seed, rng, hash_seed,
          run, first_outcome>>

-----------------------------------------------------------------------------
(* Constants of the program *)

GRID_SIZE == 5

MAX_CANDIDATES == 5000

TIMEOUT_SECONDS == 60

\* the class attribute MAX_ATTEMPTS
DEFAULT_MAX_ATTEMPTS == 500000

None == "None"

\* a variable that holds no value yet, and one that holds the value v
NoValue == <<>>

Value(v) == <<v>>

Letters ==
    {"A","B","C","D","E","F","G","H","I","J","K","L","M",
     "N","O","P","Q","R","S","T","U","V","W","X","Y","Z"}

LETTER_FREQUENCY ==
    [l \in Letters |->
        CASE l = "E" -> 12
          [] l = "T" -> 9
          [] l = "A" -> 8
          [] l \in {"O", "I"} -> 7
          [] l \in {"N", "S"} -> 6
          [] l \in {"H", "R"} -> 5
          [] l \in {"D", "L"} -> 4
          [] l \in {"C", "U", "M"} -> 3
          [] l \in {"W", "F", "G", "Y", "P", "B"} -> 2
          [] OTHER -> 1]

Idx == 0 .. (GRID_SIZE - 1)

\* list[i] of Python, i counted from 0
At(list, i) == list[i + 1]

\* A layout written as five rows of five characters, read as layout[row][col]
Rows(r) == [row \in Idx |-> [col \in Idx |-> r[row + 1][col + 1]]]

GRID_TEMPLATES ==
    [monday |-> Rows(<< <<".", ".", ".", "#", "#">>,
                        <<".", ".", ".", "#", "#">>,
                        <<".", ".", ".", ".", ".">>,
                        <<"#", "#", ".", ".", ".">>,
                        <<"#", "#", ".", ".", ".">> >>),
     tuesday |-> Rows(<< <<"#", ".", ".", ".", "#">>,
                         <<".", ".", ".", ".", ".">>,
                         <<".", ".", ".", ".", ".">>,
                         <<".", ".", ".", ".", ".">>,
                         <<"#", ".", ".", ".", "#">> >>),
     wednesday |-> Rows(<< <<"#", ".", ".", ".", ".">>,
                           <<".", ".", ".", ".", ".">>,
                           <<".", ".", ".", ".", ".">>,
                           <<".", ".", ".", ".", ".">>,
                           <<".", ".", ".", ".", "#">> >>),
     thursday |-> Rows(<< <<"#", ".", ".", ".", ".">>,
                          <<".", ".", ".", ".", ".">>,
                          <<".", ".", ".", ".", ".">>,
                          <<".", ".", ".", ".", ".">>,
                          <<"#", ".", ".", ".", "#">> >>),
     friday |-> Rows(<< <<".", ".", ".", ".", "#">>,
                        <<".", ".", ".", ".", ".">>,
                        <<".", ".", ".", ".", ".">>,
                        <<".", ".", ".", ".", ".">>,
                        <<"#", ".", ".", ".", ".">> >>),
     saturday |-> Rows(<< <<".", ".", ".", ".", ".">>,
                          <<".", ".", ".", ".", ".">>,
                          <<".", ".", ".", ".", ".">>,
                          <<".", ".", ".", ".", ".">>,
                          <<".", ".", ".", ".", ".">> >>),
     sunday |-> Rows(<< <<"#", ".", ".", ".", "#">>,
                        <<".", ".", ".", ".", ".">>,
                        <<".", ".", ".", ".", ".">>,
                        <<".", ".", ".", ".", ".">>,
                        <<"#", ".", ".", ".", "#">> >>)]

TemplateIds == DOMAIN GRID_TEMPLATES

-----------------------------------------------------------------------------
(* extract_slots *)

\* the cell visited k-th (k = 0 .. 24) by "for row ... for col ..."
CellAt(k) == <<k \div GRID_SIZE, k % GRID_SIZE>>

\* a faulty test that does not look at the cell to the right
starts_across_unchecked(lay, row, col) == col = 0 \/ lay[row][col - 1] = "#"

starts_across(lay, row, col) ==
    /\ (col = 0 \/ lay[row][col - 1] = "#")
    /\ col < GRID_SIZE - 1
    /\ lay[row][col + 1] # "#"

starts_down(lay, row, col) ==
    /\ (row = 0 \/ lay[row - 1][col] = "#")
    /\ row < GRID_SIZE - 1
    /\ lay[row + 1][col] # "#"

\* First pass: cell_to_clue, a function from the numbered cells to their number
RECURSIVE FirstPass(_, _, _, _)
FirstPass(lay, k, clue_number, cell_to_clue) ==
    IF k >= GRID_SIZE * GRID_SIZE THEN cell_to_clue
    ELSE LET row == CellAt(k)[1]
             col == CellAt(k)[2]
         IN  IF lay[row][col] = "#"
             THEN FirstPass(lay, k + 1, clue_number, cell_to_clue)
             ELSE IF starts_across(lay, row, col) \/ starts_down(lay, row, col)
                  THEN FirstPass(lay, k + 1, clue_number + 1,
                                 [c \in DOMAIN cell_to_clue \cup {<<row, col>>} |->
                                     IF c = <<row, col>> THEN clue_number
                                     ELSE cell_to_clue[c]])
                  ELSE FirstPass(lay, k + 1, clue_number, cell_to_clue)

EmptyMap == [c \in {} |-> 0]

CellToClue(lay) == FirstPass(lay, 0, 1, EmptyMap)

\* cell_to_clue.get(cell, 0)
ClueGet(cell_to_clue, cell) ==
    IF cell \in DOMAIN cell_to_clue THEN cell_to_clue[cell] ELSE 0

\* the while loops of the second pass: the run of non-block cells from (r, c)
RECURSIVE AcrossRun(_, _, _)
AcrossRun(lay, row, c) ==
    IF c < GRID_SIZE /\ lay[row][c] # "#"
    THEN <<<<row, c>>>> \o AcrossRun(lay, row, c + 1)
    ELSE <<>>

RECURSIVE DownRun(_, _, _)
DownRun(lay, r, col) ==
    IF r < GRID_SIZE /\ lay[r][col] # "#"
    THEN <<<<r, col>>>> \o DownRun(lay, r + 1, col)
    ELSE <<>>

Slot(index, direction, positions) ==
    [index |-> index, direction |-> direction, positions |-> positions,
     length |-> Len(positions), intersections |-> <<>>]

\* a second pass that keeps runs of a single cell (a variant of LongEnough)
LongEnoughOne(positions) == Len(positions) >= 1

\* a second pass that drops the runs of three cells (a variant of LongEnough)
LongEnoughOverThree(positions) == Len(positions) > 3

\* "if len(positions) >= 2" in the second pass
LongEnough(positions) == Len(positions) >= 2

\* Second pass: the slots in the order they are appended
RECURSIVE SecondPass(_, _, _)
SecondPass(lay, k, cell_to_clue) ==
    IF k >= GRID_SIZE * GRID_SIZE THEN <<>>
    ELSE LET row == CellAt(k)[1]
             col == CellAt(k)[2]
             apos == AcrossRun(lay, row, col)
             dpos == DownRun(lay, row, col)
             across == IF /\ (col = 0 \/ lay[row][col - 1] = "#")
                          /\ LongEnough(apos)
                       THEN <<Slot(ClueGet(cell_to_clue, <<row, col>>), "across", apos)>>
                       ELSE <<>>
             down == IF /\ (row = 0 \/ lay[row - 1][col] = "#")
                        /\ LongEnough(dpos)
                     THEN <<Slot(ClueGet(cell_to_clue, <<row, col>>), "down", dpos)>>
                     ELSE <<>>
         IN  IF lay[row][col] = "#"
             THEN SecondPass(lay, k + 1, cell_to_clue)
             ELSE across \o down \o SecondPass(lay, k + 1, cell_to_clue)

PosSet(slot) == {slot.positions[p] : p \in 1 .. Len(slot.positions)}

\* positions.index(cell), counted from 0
PosIndex(positions, cell) ==
    (CHOOSE p \in 1 .. Len(positions) :
        /\ positions[p] = cell
        /\ \A q \in 1 .. (p - 1) : positions[q] # cell) - 1

\* a faulty third pass that records a crossing in slot_a only
RECURSIVE ThirdPassInnerOneSided(_, _, _)
ThirdPassInnerOneSided(ss, i, j) ==
    IF j >= Len(ss) THEN ss
    ELSE LET slot_a == At(ss, i)
             slot_b == At(ss, j)
             common == PosSet(slot_a) \cap PosSet(slot_b)
         IN  IF i >= j \/ slot_a.direction = slot_b.direction \/ common = {}
             THEN ThirdPassInnerOneSided(ss, i, j + 1)
             ELSE LET cell == CHOOSE c \in common : TRUE
                      pos_a == PosIndex(slot_a.positions, cell)
                      pos_b == PosIndex(slot_b.positions, cell)
                  IN  ThirdPassInnerOneSided(
                          [ss EXCEPT
                             ![i + 1].intersections = Append(@, <<j, pos_a, pos_b>>)],
                          i, j + 1)

\* Third pass, inner loop "for j, slot_b in enumerate(slots)" (j counted from 0)
RECURSIVE ThirdPassInner(_, _, _)
ThirdPassInner(ss, i, j) ==
    IF j >= Len(ss) THEN ss
    ELSE LET slot_a == At(ss, i)
             slot_b == At(ss, j)
             common == PosSet(slot_a) \cap PosSet(slot_b)
         IN  IF i >= j \/ slot_a.direction = slot_b.direction \/ common = {}
             THEN ThirdPassInner(ss, i, j + 1)
             ELSE LET cell == CHOOSE c \in common : TRUE
                      pos_a == PosIndex(slot_a.positions, cell)
                      pos_b == PosIndex(slot_b.positions, cell)
                  IN  ThirdPassInner(
                          [ss EXCEPT
                             ![i + 1].intersections = Append(@, <<j, pos_a, pos_b>>),
                             ![j + 1].intersections = Append(@, <<i, pos_b, pos_a>>)],
                          i, j + 1)

\* Third pass, outer loop "for i, slot_a in enumerate(slots)"
RECURSIVE ThirdPass(_, _)
ThirdPass(ss, i) ==
    IF i >= Len(ss) THEN ss ELSE ThirdPass(ThirdPassInner(ss, i, 0), i + 1)

extract_slots(lay) == ThirdPass(SecondPass(lay, 0, CellToClue(lay)), 0)

-----------------------------------------------------------------------------
(* sort_slots_by_difficulty: sorted() is stable, the key is               *)
(* (-len(intersections), -length)                                         *)

\* a key that puts the slots with fewer intersections first (a variant of
\* KeyLess)
KeyLessAscending(s, t) ==
    \/ Len(s.intersections) < Len(t.intersections)
    \/ /\ Len(s.intersections) = Len(t.intersections)
       /\ s.length > t.length

KeyLess(s, t) ==
    \/ Len(s.intersections) > Len(t.intersections)
    \/ /\ Len(s.intersections) = Len(t.intersections)
       /\ s.length > t.length

\* insert s behind every element that does not come strictly after it
RECURSIVE InsertSorted(_, _)
InsertSorted(sorted, s) ==
    IF sorted = <<>> THEN <<s>>
    ELSE IF KeyLess(s, Head(sorted)) THEN <<s>> \o sorted
    ELSE <<Head(sorted)>> \o InsertSorted(Tail(sorted), s)

RECURSIVE SortFrom(_, _, _)
SortFrom(ss, k, acc) ==
    IF k > Len(ss) THEN acc ELSE SortFrom(ss, k + 1, InsertSorted(acc, ss[k]))

sort_slots_by_difficulty(ss) == SortFrom(ss, 1, <<>>)

-----------------------------------------------------------------------------
(* build_letter_index and calculate_crossability_score *)

\* the index with its empty buckets: one for every length of words_by_length,
\* position below the length and letter
EmptyIndex(wbl) ==
    [length \in DOMAIN wbl |->
        [pos \in 0 .. (length - 1) |-> [letter \in Letters |-> {}]]]

\* a builder that puts a word into the bucket of its first letter only (a
\* variant of AddWord)
AddWordFirstOnly(index, length, word, pos) ==
    IF pos >= 1 THEN index
    ELSE [index EXCEPT ![length][pos][At(word, pos)] = @ \cup {word}]

RECURSIVE AddWord(_, _, _, _)
\* "for pos, letter in enumerate(word): index[length][pos][letter].add(word)",
\* from position pos on
AddWord(index, length, word, pos) ==
    IF pos >= Len(word) THEN index
    ELSE AddWord([index EXCEPT ![length][pos][At(word, pos)] = @ \cup {word}],
                 length, word, pos + 1)

RECURSIVE AddWords(_, _, _)
\* "for word in words" for the words of one length
AddWords(index, length, words) ==
    IF words = {} THEN index
    ELSE LET word == CHOOSE w \in words : TRUE
         IN  AddWords(AddWord(index, length, word, 0), length, words \ {word})

RECURSIVE AddLengths(_, _, _)
\* "for length, words in words_by_length.items()" for the lengths in todo
AddLengths(index, wbl, todo) ==
    IF todo = {} THEN index
    ELSE LET length == CHOOSE l \in todo : TRUE
         IN  AddLengths(AddWords(index, length, wbl[length]), wbl, todo \ {length})

build_letter_index(wbl) == AddLengths(EmptyIndex(wbl), wbl, DOMAIN wbl)

RECURSIVE LetterSum(_, _)
LetterSum(word, k) ==
    IF k > Len(word) THEN 0 ELSE LETTER_FREQUENCY[word[k]] + LetterSum(word, k + 1)

\* calculate_crossability_score(word) is LetterSum(word, 1) / Len(word).
\* The sort key of get_candidates is score + random.uniform(0, 2), descending:
\* a is certain to come before b only when score(a) - score(b) > 2.
SurelyBefore(a, b) ==
    LetterSum(a, 1) * Len(b) - LetterSum(b, 1) * Len(a) > 2 * Len(a) * Len(b)

-----------------------------------------------------------------------------
(* CrosswordSolver *)

\* a faulty __init__ that leaves out "Mark black squares"
NewGridUnmarked(lay) == [row \in Idx |-> [col \in Idx |-> None]]

\* __init__: the grid with the black squares marked
NewGrid(lay) ==
    [row \in Idx |-> [col \in Idx |-> IF lay[row][col] = "#" THEN "#" ELSE None]]

get_current_pattern(g, slot) ==
    [p \in 1 .. Len(slot.positions) |->
        LET cell == g[slot.positions[p][1]][slot.positions[p][2]]
        IN  IF cell # None /\ cell # "#" THEN cell ELSE "_"]

\* the loop "for pos, char in enumerate(pattern)" of get_matching_words_fast;
\* result is NoValue (None) until the first fixed letter is met.  The value is
\* the pair <<early exit taken, result>>.
RECURSIVE MatchLoop(_, _, _, _, _)
MatchLoop(index, length, pattern, pos, result) ==
    IF pos >= Len(pattern) THEN <<FALSE, result>>
    ELSE LET char == At(pattern, pos)
         IN  IF char = "_" THEN MatchLoop(index, length, pattern, pos + 1, result)
             ELSE LET matching == index[length][pos][char]
                      r2 == IF result = NoValue THEN matching
                            ELSE result[1] \cap matching
                  IN  IF r2 = {} THEN <<TRUE, NoValue>>
                      ELSE MatchLoop(index, length, pattern, pos + 1, Value(r2))

\* a get_matching_words_fast that leaves out "- self.used_words"
get_matching_words_fast_keeps_used(index, wbl, g, used, slot) ==
    LET pattern == get_current_pattern(g, slot)
        length == slot.length
    IN  IF length \notin DOMAIN index THEN {}
        ELSE LET m == MatchLoop(index, length, pattern, 0, NoValue)
             IN  IF m[1] THEN {}
                 ELSE IF m[2] = NoValue
                      THEN (IF length \in DOMAIN wbl THEN wbl[length] ELSE {})
                      ELSE m[2][1]

get_matching_words_fast(index, wbl, g, used, slot) ==
    LET pattern == get_current_pattern(g, slot)
        length == slot.length
    IN  IF length \notin DOMAIN index THEN {}
        ELSE LET m == MatchLoop(index, length, pattern, 0, NoValue)
             IN  IF m[1] THEN {}
                 ELSE (IF m[2] = NoValue
                       THEN (IF length \in DOMAIN wbl THEN wbl[length] ELSE {})
                       ELSE m[2][1]) \ used

\* get_candidates returns the matching words in the order of the weighted
\* shuffle, cut to MAX_CANDIDATES.  An activation of solve holds that list as
\* the word it is trying (word), the number of words it has taken from the
\* list (k) and the set of words behind them (rest): which word of rest comes
\* next is drawn when the loop reaches it, which gives the same runs as drawing
\* the whole order at entry.  NextWords is the set of words that can stand
\* first in an ordering of rest.
get_candidates(index, wbl, g, used, slot) ==
    get_matching_words_fast(index, wbl, g, used, slot)

NextWords(rest) == {w \in rest : \A u \in rest : ~SurelyBefore(u, w)}

\* the letters in the order of their code points
Alphabet ==
    <<"A","B","C","D","E","F","G","H","I","J","K","L","M",
      "N","O","P","Q","R","S","T","U","V","W","X","Y","Z">>

LetterRank(l) == CHOOSE i \in 1 .. Len(Alphabet) : Alphabet[i] = l

RECURSIVE WordCode(_, _)
\* a number that tells the words of one length apart
WordCode(word, k) ==
    IF k > Len(word) THEN 0
    ELSE LetterRank(word[k]) + (Len(Alphabet) + 1) * WordCode(word, k + 1)

\* the string hash seeds a process can run with
HashSeeds == {0, 1}

\* a set of str is iterated in an order that the string hash seed of the
\* process decides: here one order and its reverse
ComesFirst(S, h) ==
    CHOOSE w \in S : \A u \in S :
        IF h = 0 THEN WordCode(w, 1) <= WordCode(u, 1)
        ELSE WordCode(w, 1) >= WordCode(u, 1)

RECURSIVE IterationOrder(_, _)
\* list(matching): the words of the set in the order of its iteration
IterationOrder(S, h) ==
    IF S = {} THEN <<>>
    ELSE LET w == ComesFirst(S, h) IN <<w>> \o IterationOrder(S \ {w}, h)

\* the resolution of the random numbers of the model
RngPeriod == 13

\* the seeds random.seed is called with
MaxSeed == 2

Seeds == 1 .. MaxSeed

\* the k-th number the generator hands out after random.seed(s) (k from 0),
\* as a multiple of 1 / RngPeriod of the range of random.uniform
Draw(s, k) == (s * ((k % RngPeriod) + 1)) % RngPeriod

\* the sort key of the i-th entry of the list, times RngPeriod * length: the
\* score plus random.uniform(0, 2), the draws being made in list order
SortKey(lst, s, r, i) ==
    RngPeriod * LetterSum(lst[i], 1) + 2 * Len(lst[i]) * Draw(s, r + i - 1)

RECURSIVE SortDescending(_, _, _, _)
\* scored.sort(key=..., reverse=True): stable, by descending key; todo is the
\* set of list indices not yet put out
SortDescending(lst, s, r, todo) ==
    IF todo = {} THEN <<>>
    ELSE LET i == CHOOSE a \in todo : \A b \in todo :
                      \/ SortKey(lst, s, r, a) > SortKey(lst, s, r, b)
                      \/ SortKey(lst, s, r, a) = SortKey(lst, s, r, b) /\ a <= b
         IN  <<lst[i]>> \o SortDescending(lst, s, r, todo \ {i})

\* "candidates[:self.MAX_CANDIDATES]"
Truncate(lst) ==
    IF Len(lst) > MAX_CANDIDATES THEN SubSeq(lst, 1, MAX_CANDIDATES) ELSE lst

\* get_candidates when random.seed(s) was called and r numbers were drawn
\* since, in a process with string hash seed h: the list it returns
get_candidates_seeded(matching, s, h, r) ==
    LET lst == IterationOrder(matching, h)
    IN  Truncate(SortDescending(lst, s, r, 1 .. Len(lst)))

\* the words "for word in candidates" can go on with
CandidateChoices(f) ==
    IF seed = NoValue THEN NextWords(f.rest) ELSE {f.order[f.k + 1]}

\* a loop that never sees the end of its list
LoopNeverDone(f) == FALSE

\* "for word in candidates" has run off the end of the (truncated) list
LoopDone(f) == f.rest = {} \/ f.k >= MAX_CANDIDATES

place_word(g, slot, word) ==
    [row \in Idx |-> [col \in Idx |->
        IF \E i \in 1 .. Len(slot.positions) : slot.positions[i] = <<row, col>>
        THEN word[CHOOSE i \in 1 .. Len(slot.positions) : slot.positions[i] = <<row, col>>]
        ELSE g[row][col]]]

\* self.slots.index(slot), counted from 0
SlotIndex(ss, slot) ==
    (CHOOSE p \in 1 .. Len(ss) : ss[p] = slot /\ \A q \in 1 .. (p - 1) : ss[q] # slot) - 1

\* remove_word: is_shared for the cell at offset i (counted from 0)
is_shared(ss, slot, i) ==
    \E t \in 1 .. Len(slot.intersections) :
        /\ slot.intersections[t][1] < SlotIndex(ss, slot)
        /\ slot.intersections[t][2] = i

remove_word(ss, g, slot) ==
    [row \in Idx |-> [col \in Idx |->
        IF \E i \in 1 .. Len(slot.positions) :
              slot.positions[i] = <<row, col>> /\ ~is_shared(ss, slot, i - 1)
        THEN None
        ELSE g[row][col]]]

\* the clock never runs backwards: what a later time.time() may return
ClockReadings == {0, TIMEOUT_SECONDS, TIMEOUT_SECONDS + 1}

Later(t) == {u \in ClockReadings : u >= t}

\* forward_check from its t-th intersection on, the clock standing at clock:
\* the set of pairs <<returned value, clock afterwards, a probe timed out>>
RECURSIVE ForwardLoop(_, _, _, _, _, _, _, _, _)
ForwardLoop(index, wbl, ss, g, used, start, current_slot, t, clock) ==
    IF t > Len(current_slot.intersections) THEN {<<TRUE, clock, FALSE>>}
    ELSE LET other_slot == At(ss, current_slot.intersections[t][1])
             pattern == get_current_pattern(g, other_slot)
         IN  IF \A p \in 1 .. Len(pattern) : pattern[p] # "_"
             THEN ForwardLoop(index, wbl, ss, g, used, start, current_slot, t + 1, clock)
             ELSE UNION {
                    IF c2 - start > TIMEOUT_SECONDS
                    THEN {<<FALSE, c2, TRUE>>}
                    ELSE IF get_matching_words_fast(index, wbl, g, used, other_slot) = {}
                         THEN {<<FALSE, c2, FALSE>>}
                         ELSE ForwardLoop(index, wbl, ss, g, used, start,
                                          current_slot, t + 1, c2)
                    : c2 \in Later(clock)}

forward_check(index, wbl, ss, g, used, start, current_slot, clock) ==
    ForwardLoop(index, wbl, ss, g, used, start, current_slot, 1, clock)

\* get_words: the word read from the grid along a slot
ReadWord(g, slot) ==
    [p \in 1 .. Len(slot.positions) |-> g[slot.positions[p][1]][slot.positions[p][2]]]

Frame(slot_index) ==
    [slot_index |-> slot_index, at |-> "enter", rest |-> {}, order |-> <<>>,
     k |-> 0, word |-> None, grid0 |-> NoValue, used0 |-> NoValue]

Top == stack[Len(stack)]

SetTop(f) == [stack EXCEPT ![Len(stack)] = f]

Pop == SubSeq(stack, 1, Len(stack) - 1)

-----------------------------------------------------------------------------
(* The inputs the model is checked on *)

\* organize_by_length with min_len = 3, max_len = 5 (the words are upper-cased)
organize_by_length(word_set) ==
    [i \in 3 .. 5 |-> {w \in word_set : Len(w) = i}]

\* organize_by_length called with another min_len
organize_by_length_from(word_set, min_len) ==
    [i \in min_len .. 5 |-> {w \in word_set : Len(w) = i}]

\* the single word of the pathological dictionary
DictSingle == {<<"A", "A", "A", "A", "A">>}

\* Two dictionaries for the Monday template.  Neither has a filling of the
\* template by pairwise distinct words that agree where slots cross.
DictMondayA ==
    {<<"A", "S", "C", "D", "E">>, <<"F", "G", "C", "H", "I">>, <<"J", "K", "A">>,
     <<"J", "H", "F">>, <<"J", "O", "F">>, <<"K", "R", "G">>, <<"K", "T", "U">>,
     <<"H", "R", "S">>, <<"O", "T", "S">>, <<"I", "V", "W">>, <<"D", "R", "V">>,
     <<"E", "S", "W">>}

DictMondayB ==
    {<<"A", "S", "C", "D", "E">>, <<"A", "G", "C", "D", "E">>, <<"J", "K", "A">>,
     <<"J", "D", "A">>, <<"J", "L", "A">>, <<"K", "R", "G">>, <<"K", "T", "S">>,
     <<"D", "R", "S">>, <<"L", "T", "S">>, <<"E", "V", "W">>, <<"D", "R", "V">>,
     <<"E", "S", "W">>}

\* A dictionary holding exactly the ten words of one filling of the Tuesday
\* template, and one for the Saturday template (and its transpose)
DictTuesday ==
    {<<"D", "U", "O">>, <<"D", "V", "J", "A", "S">>,
     <<"U", "F", "C", "R", "N">>, <<"O", "Q", "B", "E", "T">>,
     <<"M", "V", "F", "Q", "X">>, <<"M", "Z", "I">>, <<"X", "K", "Y">>,
     <<"Z", "J", "C", "B", "K">>, <<"I", "A", "R", "E", "Y">>,
     <<"S", "N", "T">>}

\* the words of another filling of the Tuesday template, with letters that
\* recur
DictTuesdayB ==
    {<<"Q", "F", "Z">>, <<"Q", "E", "K", "B", "K">>,
     <<"F", "E", "K", "E", "V">>, <<"Z", "E", "Q", "E", "T">>,
     <<"E", "E", "E", "E", "T">>, <<"E", "P", "E">>,
     <<"T", "K", "A">>, <<"P", "K", "K", "Q", "K">>,
     <<"E", "B", "E", "E", "A">>, <<"K", "V", "T">>}

DictSaturday ==
    {<<"L", "I", "W", "B", "H">>, <<"L", "G", "U", "D", "N">>,
     <<"I", "Q", "S", "A", "T">>, <<"W", "Z", "V", "X", "M">>,
     <<"B", "F", "Y", "K", "J">>, <<"H", "P", "O", "R", "E">>,
     <<"G", "Q", "Z", "F", "P">>, <<"U", "S", "V", "Y", "O">>,
     <<"D", "A", "X", "K", "R">>, <<"N", "T", "M", "J", "E">>}

Dictionaries ==
    {DictSingle, DictMondayA, DictMondayB, DictTuesday, DictTuesdayB, DictSaturday}

\* the attempt caps tried besides the program's own
MaxCap == 12

AttemptCaps == (1 .. MaxCap) \cup {DEFAULT_MAX_ATTEMPTS}

-----------------------------------------------------------------------------
(* CrosswordSolver.__init__ *)

\* the fields of a solver constructed for template t
NewSolver(t, wbl, index, cap) ==
    [template_id |-> t,
     layout |-> GRID_TEMPLATES[t],
     words_by_length |-> wbl,
     letter_index |-> index,
     extracted |-> extract_slots(GRID_TEMPLATES[t]),
     slots |-> sort_slots_by_difficulty(extract_slots(GRID_TEMPLATES[t])),
     grid |-> NewGrid(GRID_TEMPLATES[t]),
     MAX_ATTEMPTS |-> cap]

\* the state in which no solver has been constructed
NoSolver ==
    /\ template_id = None
    /\ words_by_length = NoValue
    /\ letter_index = NoValue
    /\ slots = <<>>
    /\ grid = NoValue
    /\ used_words = {}
    /\ attempts = 0
    /\ backtracks = 0
    /\ start_time = None
    /\ MAX_ATTEMPTS = DEFAULT_MAX_ATTEMPTS
    /\ stack = <<>>
    /\ ret = NoValue
    /\ success = NoValue
    /\ solution = NoValue
    /\ reason = None
    /\ breached = {}
    /\ placed = <<>>

\* generate_puzzle is not running
NoGenerator ==
    /\ words_ordered = NoValue
    /\ tier = 0
    /\ attempt = 0
    /\ final_tier = 0
    /\ gen_grid = NoValue
    /\ gen_pc = "off"
    /\ puzzle = NoValue
    /\ log = <<>>
    /\ called = {}

\* random.seed has not been called: the shuffles of get_candidates are open
NoSeed ==
    /\ seed = NoValue
    /\ rng = 0
    /\ hash_seed = 0
    /\ run = 0
    /\ first_outcome = NoValue

SolverInit(t, wbl, index, cap) ==
    LET s == NewSolver(t, wbl, index, cap)
    IN  /\ template_id = s.template_id
        /\ layout = s.layout
        /\ extracted = s.extracted
        /\ words_by_length = s.words_by_length
        /\ letter_index = s.letter_index
        /\ slots = s.slots
        /\ grid = s.grid
        /\ used_words = {}
        /\ attempts = 0
        /\ backtracks = 0
        /\ start_time = None
        /\ MAX_ATTEMPTS = s.MAX_ATTEMPTS
        /\ stack = <<>>
        /\ pc = "ready"
        /\ ret = NoValue
        /\ success = NoValue
        /\ solution = NoValue
        /\ reason = None
        /\ breached = {}
        /\ placed = [i \in 0 .. (Len(s.slots) - 1) |-> None]

Init ==
    /\ now = 0
    /\ NoGenerator
    /\ NoSeed
    /\ \E t \in TemplateIds, d \in Dictionaries, cap \in AttemptCaps :
          SolverInit(t, organize_by_length(d),
                     build_letter_index(organize_by_length(d)), cap)

-----------------------------------------------------------------------------
(* get_solution and solve *)

genVars == <<words_ordered, tier, attempt, final_tier, gen_grid, gen_pc, puzzle, log,
             called>>

seedVars == <<seed, hash_seed, run, first_outcome>>

constVars == <<layout, extracted, template_id, words_by_length, letter_index,
               slots, MAX_ATTEMPTS, genVars, seedVars>>

\* get_solution up to its call of solve().  Only differences from start_time
\* are ever used, so the clock is counted from this reading of it.
GetSolutionStart ==
    /\ pc = "ready"
    /\ now' = 0
    /\ start_time' = 0
    /\ stack' = <<Frame(0)>>
    /\ pc' = "solving"
    /\ UNCHANGED <<constVars, grid, used_words, attempts, backtracks, ret,
                   success, solution, reason, breached, placed, rng>>

\* an activation of solve returns v to its caller
Return(v) ==
    /\ stack' = Pop
    /\ ret' = Value(v)

\* a faulty cap check that lets one entry too many through
OverAttemptCapLate(n, cap) == n > cap + 1

\* "if self.attempts > self.MAX_ATTEMPTS"
OverAttemptCap(n, cap) == n > cap

\* "if time.time() - self.start_time > self.TIMEOUT_SECONDS"
TimedOut(t, start) == t - start > TIMEOUT_SECONDS

\* solve from its entry to the start of its loop
SolveEnter ==
    /\ pc = "solving" /\ ret = NoValue /\ stack # <<>> /\ Top.at = "enter"
    /\ attempts' = attempts + 1
    /\ UNCHANGED <<constVars, grid, used_words, backtracks, start_time, pc,
                   success, solution, reason, placed>>
    /\ IF OverAttemptCap(attempts + 1, MAX_ATTEMPTS)
       THEN /\ Return(FALSE)
            /\ breached' = breached \cup {"max_attempts"}
            /\ now' = now
            /\ rng' = rng
       ELSE \E t \in Later(now) :
              /\ now' = t
              /\ IF TimedOut(t, start_time)
                 THEN /\ Return(FALSE)
                      /\ breached' = breached \cup {"timeout"}
                      /\ rng' = rng
                 ELSE /\ breached' = breached
                      /\ IF Top.slot_index >= Len(slots)
                         THEN Return(TRUE) /\ rng' = rng
                         ELSE LET matching ==
                                      get_candidates(letter_index, words_by_length, grid,
                                                     used_words, At(slots, Top.slot_index))
                              IN  /\ ret' = NoValue
                                  /\ stack' = SetTop([Top EXCEPT
                                        !.at = "loop",
                                        !.rest = matching,
                                        !.order =
                                            IF seed = NoValue THEN <<>>
                                            ELSE get_candidates_seeded(matching, seed[1],
                                                                       hash_seed, rng)])
                                  /\ rng' = IF seed = NoValue THEN rng
                                            ELSE (rng + Cardinality(matching)) % RngPeriod

\* one turn of "for word in candidates": place_word, forward_check, and then
\* either the recursive call or remove_word; or the end of the loop
SolveTry ==
    /\ pc = "solving" /\ ret = NoValue /\ stack # <<>> /\ Top.at = "loop"
    /\ UNCHANGED <<constVars, attempts, start_time, pc, success, solution, reason,
                   rng>>
    /\ IF LoopDone(Top)
       THEN /\ Return(FALSE)
            /\ UNCHANGED <<grid, used_words, backtracks, now, breached, placed>>
       ELSE \E word \in CandidateChoices(Top) :
            LET slot == At(slots, Top.slot_index)
                g1 == place_word(grid, slot, word)
                u1 == used_words \cup {word}
                f1 == [Top EXCEPT !.word = word, !.k = @ + 1, !.rest = @ \ {word}]
            IN  /\ placed' = [placed EXCEPT ![Top.slot_index] = word]
                /\ ret' = NoValue
                /\ \E fc \in forward_check(letter_index, words_by_length, slots, g1, u1,
                                           start_time, slot, now) :
                      /\ now' = fc[2]
                      /\ breached' = IF fc[3] THEN breached \cup {"probe"} ELSE breached
                      /\ IF fc[1]
                         THEN /\ grid' = g1
                              /\ used_words' = u1
                              /\ backtracks' = backtracks
                              /\ stack' = Append(SetTop([f1 EXCEPT !.at = "call",
                                                                   !.grid0 = Value(grid),
                                                                   !.used0 = Value(used_words)]),
                                                 Frame(Top.slot_index + 1))
                         ELSE /\ grid' = remove_word(slots, g1, slot)
                              /\ used_words' = u1 \ {word}
                              /\ backtracks' = backtracks + 1
                              /\ stack' = SetTop([f1 EXCEPT !.word = None])

\* solve after its recursive call has returned
SolveResume ==
    /\ pc = "solving" /\ ret # NoValue /\ stack # <<>> /\ Top.at = "call"
    /\ UNCHANGED <<constVars, attempts, start_time, now, pc, success, solution,
                   reason, breached, placed, rng>>
    /\ IF ret[1]
       THEN /\ Return(TRUE)
            /\ UNCHANGED <<grid, used_words, backtracks>>
       ELSE /\ grid' = remove_word(slots, grid, At(slots, Top.slot_index))
            /\ used_words' = used_words \ {Top.word}
            /\ backtracks' = backtracks + 1
            /\ ret' = NoValue
            /\ stack' = SetTop([Top EXCEPT !.at = "loop", !.word = None,
                                           !.grid0 = NoValue, !.used0 = NoValue])

\* a get_solution that hands out its grid whatever solve() returned (a variant
\* of get_solution_result)
get_solution_result_grid(ok, g) == Value(g)

\* what get_solution returns: the grid if solve() returned True, else None
get_solution_result(ok, g) == IF ok THEN Value(g) ELSE NoValue

\* get_solution after solve() has returned
GetSolutionEnd ==
    /\ pc = "solving" /\ ret # NoValue /\ stack = <<>>
    /\ success' = ret
    /\ ret' = NoValue
    /\ pc' = "done"
    /\ \E t \in Later(now) :
          /\ now' = t
          /\ solution' = get_solution_result(ret[1], grid)
          /\ IF ret[1]
             THEN reason' = None
             ELSE /\ reason' = IF t - start_time >= TIMEOUT_SECONDS THEN "timeout"
                               ELSE IF attempts >= MAX_ATTEMPTS THEN "max attempts"
                               ELSE "exhausted"
    /\ UNCHANGED <<constVars, grid, used_words, attempts, backtracks, start_time,
                   stack, breached, placed, rng>>

Next ==
    \/ GetSolutionStart
    \/ SolveEnter
    \/ SolveTry
    \/ SolveResume
    \/ GetSolutionEnd

\* one run of get_solution, on every catalog template, dictionary and cap
Spec == Init /\ [][Next]_vars

-----------------------------------------------------------------------------
(* extract_slots on its own, over block patterns *)

Cells == Idx \X Idx

\* the block patterns tried: at most MaxBlocks black squares anywhere, and the
\* patterns of the catalog
MaxBlocks == 4

RECURSIVE BlockSets(_)
BlockSets(n) ==
    IF n = 0 THEN {{}}
    ELSE LET prev == BlockSets(n - 1)
         IN  prev \cup {b \cup {c} : b \in prev, c \in Cells}

LayoutOf(blocks) ==
    [row \in Idx |-> [col \in Idx |-> IF <<row, col>> \in blocks THEN "#" ELSE "."]]

BlockPatterns ==
    {LayoutOf(b) : b \in BlockSets(MaxBlocks)}
        \cup {GRID_TEMPLATES[t] : t \in TemplateIds}

InitExtract ==
    /\ layout \in BlockPatterns
    /\ extracted = <<>>
    /\ pc = "extract"
    /\ now = 0
    /\ NoSolver
    /\ NoGenerator
    /\ NoSeed

\* slots = extract_slots(...)
ExtractSlots ==
    /\ pc = "extract"
    /\ extracted' = extract_slots(layout)
    /\ pc' = "extracted"
    /\ UNCHANGED <<layout, now, template_id, words_by_length, letter_index, slots,
                   grid, used_words, attempts, backtracks, start_time, MAX_ATTEMPTS,
                   stack, ret, success, solution, reason, breached, placed, genVars,
                   seedVars, rng>>

NextExtract == ExtractSlots

SpecExtract == InitExtract /\ [][NextExtract]_vars

-----------------------------------------------------------------------------
(* build_letter_index on its own, over word lists *)

\* the words the lists are made of: lengths 3, 4 and 5, with letters that
\* recur within a word and between words
WordPool ==
    {<<"E", "P", "E">>, <<"T", "K", "A">>, <<"K", "V", "T">>,
     <<"A", "R", "E", "A">>, <<"E", "A", "S", "T">>,
     <<"E", "E", "E", "E", "T">>, <<"E", "B", "E", "E", "A">>,
     <<"Q", "E", "K", "B", "K">>, <<"A", "S", "C", "D", "E">>}

InitIndex ==
    /\ layout = NoValue
    /\ extracted = <<>>
    /\ pc = "index"
    /\ now = 0
    /\ NoGenerator
    /\ NoSeed
    /\ template_id = None
    /\ \E word_set \in SUBSET WordPool, min_len \in {3, 4} :
          words_by_length = organize_by_length_from(word_set, min_len)
    /\ letter_index = NoValue
    /\ slots = <<>>
    /\ grid = NoValue
    /\ used_words = {}
    /\ attempts = 0
    /\ backtracks = 0
    /\ start_time = None
    /\ MAX_ATTEMPTS = DEFAULT_MAX_ATTEMPTS
    /\ stack = <<>>
    /\ ret = NoValue
    /\ success = NoValue
    /\ solution = NoValue
    /\ reason = None
    /\ breached = {}
    /\ placed = <<>>

\* letter_index = build_letter_index(words_by_length)
BuildLetterIndex ==
    /\ pc = "index"
    /\ letter_index' = build_letter_index(words_by_length)
    /\ pc' = "indexed"
    /\ UNCHANGED <<layout, extracted, now, template_id, words_by_length, slots,
                   grid, used_words, attempts, backtracks, start_time, MAX_ATTEMPTS,
                   stack, ret, success, solution, reason, breached, placed, genVars,
                   seedVars, rng>>

NextIndex == BuildLetterIndex

SpecIndex == InitIndex /\ [][NextIndex]_vars

-----------------------------------------------------------------------------
(* generate_puzzle: the tier loop *)

\* words_ordered is held as the set of its entries before position 5000 (top)
\* and the set of the others (rest): create_tiered_word_list reads no more of it
create_tiered_word_list(ordered, t) ==
    IF t = 0 THEN organize_by_length(ordered.top)
    ELSE organize_by_length(ordered.top \cup ordered.rest)

\* a faulty table that gives tier 0 a sixth attempt
tier_attempts_six(t) == IF t = 0 THEN 6 ELSE 5

\* tier_attempts = {0: 5, 1: 5}
tier_attempts(t) == 5

\* "if grid:"
\* "if grid:" taken whatever get_solution returned (a variant of GridFound)
GridFoundAlways(g) == TRUE

\* "if grid:" in and behind the attempt loop
GridFound(g) == g # NoValue

\* "final_tier = tier" kept at its initial value (a variant of FinalTierOnGrid)
FinalTierKept(t, old) == old

\* "final_tier = tier" behind "if grid:" in the attempt loop
FinalTierOnGrid(t, old) == t

\* "if not grid:" never taken (a variant of NoGrid)
NoGridNever(g) == FALSE

\* "if not grid:" behind the loops of generate_puzzle
NoGrid(g) == g = NoValue

\* get_words(): the word read from the grid for every slot, by direction and
\* clue number
get_words(ss, g) ==
    {<<ss[i].direction, ss[i].index, ReadWord(g, ss[i])>> : i \in 1 .. Len(ss)}

\* what generate_clues can hand back: the model's clues, or None, which
\* generate_puzzle replaces by placeholder clues
ClueData == {"generated", "placeholder"}

\* the calls behind the loops: each with the solver generate_puzzle holds (the
\* one of the last attempt started) and the grid it holds
DownstreamCalls(n, g) ==
    {[fn |-> f, solver |-> n, grid |-> g] :
        f \in {"print_grid", "get_words", "generate_clues", "build_puzzle_json"}}

Length3(d) == {w \in d : Len(w) = 3}

\* the runs of generate_puzzle tried: the Tuesday filling with all of its words
\* in the top tier; with its three-letter words only in the full list; and a
\* list no template can be filled from
GenInputs ==
    {<<"tuesday", [top |-> DictTuesday, rest |-> {}]>>,
     <<"tuesday", [top |-> DictTuesday \ Length3(DictTuesday),
                   rest |-> Length3(DictTuesday)]>>,
     <<"monday", [top |-> DictSingle, rest |-> {}]>>}

InitGen ==
    /\ \E inp \in GenInputs :
          /\ template_id = inp[1]
          /\ words_ordered = inp[2]
    /\ layout = NoValue
    /\ extracted = <<>>
    /\ words_by_length = NoValue
    /\ letter_index = NoValue
    /\ slots = <<>>
    /\ grid = NoValue
    /\ used_words = {}
    /\ attempts = 0
    /\ backtracks = 0
    /\ start_time = None
    /\ MAX_ATTEMPTS = DEFAULT_MAX_ATTEMPTS
    /\ stack = <<>>
    /\ pc = "none"
    /\ ret = NoValue
    /\ success = NoValue
    /\ solution = NoValue
    /\ reason = None
    /\ breached = {}
    /\ placed = <<>>
    /\ now = 0
    /\ tier = 0
    /\ attempt = 0
    /\ final_tier = 0
    /\ gen_grid = NoValue
    /\ gen_pc = "tier_loop"
    /\ puzzle = NoValue
    /\ log = <<>>
    /\ called = {}
    /\ NoSeed

solverState == <<layout, extracted, words_by_length, letter_index, slots, grid,
                 used_words, attempts, backtracks, start_time, MAX_ATTEMPTS, stack,
                 pc, ret, success, solution, reason, breached, placed, seedVars, rng>>

\* "for tier in [0, 1]": the head of one turn of the loop
GenTier ==
    /\ gen_pc = "tier_loop"
    /\ attempt' = 1
    /\ gen_pc' = "attempt_loop"
    /\ UNCHANGED <<template_id, words_ordered, tier, final_tier, gen_grid, puzzle,
                   log, called, now, solverState>>

\* "for attempt in range(1, attempts_for_tier + 1)": a new solver is made and
\* get_solution is called; or the loop has run off its end
GenAttempt ==
    /\ gen_pc = "attempt_loop"
    /\ UNCHANGED <<template_id, words_ordered, tier, attempt, final_tier, gen_grid,
                   puzzle, called, now, seedVars, rng>>
    /\ IF attempt <= tier_attempts(tier)
       THEN LET wbl == create_tiered_word_list(words_ordered, tier)
                s == NewSolver(template_id, wbl, build_letter_index(wbl),
                               DEFAULT_MAX_ATTEMPTS)
            IN  /\ layout' = s.layout
                /\ extracted' = s.extracted
                /\ words_by_length' = s.words_by_length
                /\ letter_index' = s.letter_index
                /\ slots' = s.slots
                /\ grid' = s.grid
                /\ used_words' = {}
                /\ attempts' = 0
                /\ backtracks' = 0
                /\ start_time' = None
                /\ MAX_ATTEMPTS' = s.MAX_ATTEMPTS
                /\ stack' = <<>>
                /\ pc' = "ready"
                /\ ret' = NoValue
                /\ success' = NoValue
                /\ solution' = NoValue
                /\ reason' = None
                /\ breached' = {}
                /\ placed' = [i \in 0 .. (Len(s.slots) - 1) |-> None]
                /\ log' = Append(log, [tier |-> tier, attempt |-> attempt,
                                       outcome |-> "running", returned |-> NoValue,
                                       words_by_length |-> wbl])
                /\ gen_pc' = "get_solution"
       ELSE /\ gen_pc' = "tier_end"
            /\ UNCHANGED <<log, layout, extracted, words_by_length, letter_index,
                           slots, grid, used_words, attempts, backtracks, start_time,
                           MAX_ATTEMPTS, stack, pc, ret, success, solution, reason,
                           breached, placed>>

\* get_solution has returned: "if grid: final_tier = tier; break"
GenAttemptEnd ==
    /\ gen_pc = "get_solution"
    /\ pc = "done"
    /\ gen_grid' = solution
    /\ log' = [log EXCEPT ![Len(log)].outcome =
                                IF solution = NoValue THEN "none" ELSE "grid",
                            ![Len(log)].returned = solution]
    /\ IF GridFound(solution)
       THEN /\ final_tier' = FinalTierOnGrid(tier, final_tier)
            /\ attempt' = attempt
            /\ gen_pc' = "tier_end"
       ELSE /\ final_tier' = final_tier
            /\ attempt' = attempt + 1
            /\ gen_pc' = "attempt_loop"
    /\ UNCHANGED <<template_id, words_ordered, tier, puzzle, called, now,
                   solverState>>

\* behind the inner loop: "if grid: break", else on to the next tier
GenTierEnd ==
    /\ gen_pc = "tier_end"
    /\ IF GridFound(gen_grid) \/ tier = 1
       THEN gen_pc' = "return" /\ tier' = tier
       ELSE gen_pc' = "tier_loop" /\ tier' = tier + 1
    /\ UNCHANGED <<template_id, words_ordered, attempt, final_tier, gen_grid,
                   puzzle, log, called, now, solverState>>

\* "if not grid: return None"; else print_grid, get_words, generate_clues and
\* build_puzzle_json are called, and the puzzle gets meta.wordTier = final_tier
GenReturn ==
    /\ gen_pc = "return"
    /\ gen_pc' = "done"
    /\ IF NoGrid(gen_grid)
       THEN /\ puzzle' = NoValue
            /\ called' = called
       ELSE /\ \E clue_data \in ClueData :
                  puzzle' = Value([grid |-> gen_grid,
                                   words |-> get_words(slots, grid),
                                   clues |-> clue_data,
                                   wordTier |-> final_tier])
            /\ called' = DownstreamCalls(Len(log), gen_grid)
    /\ UNCHANGED <<template_id, words_ordered, tier, attempt, final_tier, gen_grid,
                   log, now, solverState>>

NextGen ==
    \/ GenTier
    \/ GenAttempt
    \/ GetSolutionStart
    \/ SolveEnter
    \/ SolveTry
    \/ SolveResume
    \/ GetSolutionEnd
    \/ GenAttemptEnd
    \/ GenTierEnd
    \/ GenReturn

SpecGen == InitGen /\ [][NextGen]_vars

-----------------------------------------------------------------------------
(* Two runs of the solver after random.seed(seed), each in its own process *)

\* the templates and dictionaries the two runs are made on, with the min_len
\* of organize_by_length: the default, and once a dictionary whose index has
\* no entry for the three-letter slots of its template
SeedInputs ==
    (TemplateIds \X Dictionaries \X {3}) \cup {<<"tuesday", DictTuesday, 4>>}

InitSeed ==
    /\ now = 0
    /\ NoGenerator
    /\ \E inp \in SeedInputs :
          LET wbl == organize_by_length_from(inp[2], inp[3])
          IN  SolverInit(inp[1], wbl, build_letter_index(wbl), DEFAULT_MAX_ATTEMPTS)
    /\ \E s \in Seeds : seed = Value(s)
    /\ \E h \in HashSeeds : hash_seed = h
    /\ rng = 0
    /\ run = 1
    /\ first_outcome = NoValue

\* the first run is over: its outcome is kept, and a second process calls
\* random.seed(seed), makes a solver from the same template and dictionary
\* and is about to call get_solution
SecondRun ==
    /\ pc = "done"
    /\ run = 1
    /\ run' = 2
    /\ first_outcome' = Value([success |-> success, solution |-> solution,
                               attempts |-> attempts, backtracks |-> backtracks,
                               breached |-> breached])
    /\ \E h \in HashSeeds : hash_seed' = h
    /\ rng' = 0
    /\ LET s == NewSolver(template_id, words_by_length, letter_index, MAX_ATTEMPTS)
       IN  /\ grid' = s.grid
           /\ placed' = [i \in 0 .. (Len(s.slots) - 1) |-> None]
    /\ used_words' = {}
    /\ attempts' = 0
    /\ backtracks' = 0
    /\ start_time' = None
    /\ stack' = <<>>
    /\ pc' = "ready"
    /\ ret' = NoValue
    /\ success' = NoValue
    /\ solution' = NoValue
    /\ reason' = None
    /\ breached' = {}
    /\ UNCHANGED <<layout, extracted, template_id, words_by_length, letter_index,
                   slots, MAX_ATTEMPTS, now, seed, genVars>>

NextSeed ==
    \/ GetSolutionStart
    \/ SolveEnter
    \/ SolveTry
    \/ SolveResume
    \/ GetSolutionEnd
    \/ SecondRun

SpecSeed == InitSeed /\ [][NextSeed]_vars

-----------------------------------------------------------------------------
(* Properties of one solver run (Spec) *)

\* the outermost solve() has returned True
SolveTrue == (stack = <<>> /\ ret = Value(TRUE)) \/ success = Value(TRUE)

SlotIds == 1 .. Len(slots)

\* C1: whenever solve() has returned True, the letters read from the grid
\* along every slot spell a word of that slot's length that is in the
\* words_by_length the solver was given.
C1_Soundness ==
    SolveTrue =>
        \A s \in SlotIds :
            /\ slots[s].length \in DOMAIN words_by_length
            /\ ReadWord(grid, slots[s]) \in words_by_length[slots[s].length]

\* C2: whenever solve() has returned True, the words read from the grid along
\* the slots, across and down together, are pairwise distinct.
C2_Distinctness ==
    SolveTrue =>
        \A s, t \in SlotIds :
            s # t => ReadWord(grid, slots[s]) # ReadWord(grid, slots[t])

\* C3: a block cell of the template holds the block marker at every moment of
\* a run (place_word and remove_word never write to it), and whenever solve()
\* has returned True every playable cell of the template holds a letter.
C3_GridTotality ==
    /\ \A row \in Idx, col \in Idx :
          layout[row][col] = "#" => grid[row][col] = "#"
    /\ SolveTrue =>
          \A row \in Idx, col \in Idx :
              layout[row][col] # "#" => grid[row][col] \in Letters

\* C3 witness: solve() has returned True on the Monday template, which has
\* eight block cells, after words were taken back
C3_SolvedAfterBacktracking ==
    /\ SolveTrue
    /\ backtracks > 0
    /\ Cardinality({c \in Idx \X Idx : layout[c[1]][c[2]] = "#"}) = 8

\* C4: whenever solve() has returned True, for every two slots that cross in
\* a cell, the words place_word last wrote into them agree in that cell, and
\* the grid holds that letter there.
C4_IntersectionConsistency ==
    SolveTrue =>
        \A a, b \in SlotIds :
            \A i \in 1 .. slots[a].length, j \in 1 .. slots[b].length :
                (a # b /\ slots[a].positions[i] = slots[b].positions[j]) =>
                    /\ placed[a - 1][i] = placed[b - 1][j]
                    /\ placed[a - 1][i] =
                          grid[slots[a].positions[i][1]][slots[a].positions[i][2]]

\* C5: every step in which solve takes a rejected word back (remove_word
\* followed by backtracks += 1) leaves the grid and used_words as they were
\* immediately before the matching place_word: the state of the step itself
\* when forward_check rejected the word, the state saved at the recursive call
\* when the call returned False.
C5_BacktrackCleanliness ==
    [][backtracks' = backtracks + 1 =>
          IF ret = NoValue
          THEN grid' = grid /\ used_words' = used_words
          ELSE grid' = Top.grid0[1] /\ used_words' = Top.used0[1]]_vars

\* C6: in self.slots, every triple (other, my_offset, their_offset) of every
\* slot S names a slot of the opposite direction whose cell at their_offset is
\* the cell of S at my_offset.
C6_TriplesValidInSortedSlots ==
    \A s \in SlotIds :
        \A t \in 1 .. Len(slots[s].intersections) :
            LET tr == slots[s].intersections[t]
            IN  /\ tr[1] < Len(slots)
                /\ At(slots, tr[1]).direction # slots[s].direction
                /\ tr[3] < At(slots, tr[1]).length
                /\ At(slots[s].positions, tr[2]) = At(At(slots, tr[1]).positions, tr[3])

\* C9: whenever solve() has returned True, attempts <= MAX_ATTEMPTS, and no
\* entry of solve in the run has failed its attempt-cap or its timeout check.
C9_BudgetHonesty ==
    SolveTrue =>
        /\ attempts <= MAX_ATTEMPTS
        /\ "max_attempts" \notin breached
        /\ "timeout" \notin breached

\* C9 witness: solve() has returned True with the attempt counter standing
\* exactly at a cap below the program's own
C9_SolvedAtTheCap ==
    /\ SolveTrue
    /\ attempts = MAX_ATTEMPTS
    /\ MAX_ATTEMPTS <= MaxCap

-----------------------------------------------------------------------------
(* Properties of extract_slots (SpecExtract) *)

ExtractedIds == 0 .. (Len(extracted) - 1)

Triples(slot) == {slot.intersections[t] : t \in 1 .. Len(slot.intersections)}

\* C7: in the list extract_slots returns, slot a holds the triple (b, i, j)
\* exactly if slot b holds (a, j, i); slots of the same direction never
\* reference each other; and a slot holds at most one triple for another.
C7_IntersectionsSymmetric ==
    \A a \in ExtractedIds :
        LET A == At(extracted, a)
        IN  /\ \A tr \in Triples(A) :
                  /\ tr[1] \in ExtractedIds
                  /\ <<a, tr[3], tr[2]>> \in Triples(At(extracted, tr[1]))
                  /\ At(extracted, tr[1]).direction # A.direction
            /\ \A t, u \in 1 .. Len(A.intersections) :
                  A.intersections[t][1] = A.intersections[u][1] => t = u

\* C7 witness: extract_slots has returned a list in which some slot crosses
\* three others and some slot crosses none
C7_CrossingsExtracted ==
    /\ pc = "extracted"
    /\ \E a \in ExtractedIds : Len(At(extracted, a).intersections) = 3
    /\ \E a \in ExtractedIds : Len(At(extracted, a).intersections) = 0

\* the cells in which a slot of the returned list starts
StartCells == {At(extracted, a).positions[1] : a \in ExtractedIds}

\* reading order of two cells
ReadsBefore(c, d) == c[1] < d[1] \/ (c[1] = d[1] /\ c[2] < d[2])

\* a playable cell that starts an across or a down run of two cells or more
StartsSlot(lay, c) ==
    /\ lay[c[1]][c[2]] # "#"
    /\ \/ /\ (c[2] = 0 \/ lay[c[1]][c[2] - 1] = "#")
          /\ c[2] + 1 < GRID_SIZE /\ lay[c[1]][c[2] + 1] # "#"
       \/ /\ (c[1] = 0 \/ lay[c[1] - 1][c[2]] = "#")
          /\ c[1] + 1 < GRID_SIZE /\ lay[c[1] + 1][c[2]] # "#"

\* C8: the cells in which the returned slots start are exactly the playable
\* cells that start an across or a down slot; slots starting in one cell share
\* one number; the numbers are 1 .. k without gaps, k the number of such cells;
\* and they increase strictly in reading order of the cells.
C8_NumberingLaw ==
    pc = "extracted" =>
        /\ StartCells = {c \in Cells : StartsSlot(layout, c)}
        /\ \A a \in ExtractedIds : At(extracted, a).index >= 1
        /\ \A a, b \in ExtractedIds :
              At(extracted, a).positions[1] = At(extracted, b).positions[1]
                  => At(extracted, a).index = At(extracted, b).index
        /\ {At(extracted, a).index : a \in ExtractedIds} = 1 .. Cardinality(StartCells)
        /\ \A a, b \in ExtractedIds :
              ReadsBefore(At(extracted, a).positions[1], At(extracted, b).positions[1])
                  => At(extracted, a).index < At(extracted, b).index

\* C8 witness: a pattern with a playable cell that starts no slot lying, in
\* reading order, before a cell that starts both an across and a down slot
C8_SharedNumberAfterUnnumberedCell ==
    /\ pc = "extracted"
    /\ \E a, b \in ExtractedIds :
          /\ a # b
          /\ At(extracted, a).positions[1] = At(extracted, b).positions[1]
          /\ \E c \in Cells :
                /\ layout[c[1]][c[2]] # "#"
                /\ ~StartsSlot(layout, c)
                /\ c[1] = 0
                /\ ReadsBefore(c, At(extracted, a).positions[1])

-----------------------------------------------------------------------------
(* Properties of generate_puzzle (SpecGen) *)

\* C10: the solver attempts started so far are attempts 1, 2, ... of tier 0
\* followed by attempts 1, 2, ... of tier 1, at most 5 of each and 10 in all;
\* a tier-1 attempt is started only after five tier-0 attempts that all
\* returned no grid; and no attempt is started after one that returned a grid.
C10_EscalationOrder ==
    /\ Len(log) <= 10
    /\ \A i \in 1 .. Len(log) :
          /\ log[i].tier \in {0, 1}
          /\ log[i].tier = 0 => (i <= 5 /\ log[i].attempt = i)
          /\ log[i].tier = 1 =>
                /\ i > 5
                /\ log[i].attempt = i - 5
                /\ \A j \in 1 .. 5 : log[j].tier = 0 /\ log[j].outcome = "none"
          /\ i < Len(log) => log[i].outcome = "none"

\* C10 witness: the second tier-1 attempt has returned a grid
C10_GridAtSeventhAttempt ==
    /\ Len(log) = 7
    /\ log[7].outcome = "grid"
    /\ log[7].tier = 1

\* the attempts of generate_puzzle whose get_solution returned a grid
GridAttempts == {n \in 1 .. Len(log) : log[n].outcome = "grid"}

\* C11: whenever generate_puzzle returns a puzzle, exactly one attempt returned
\* a grid; meta.wordTier is the tier of that attempt, and the dictionary of
\* its solver is the word list of that tier; the grid given to the puzzle,
\* the words read for the clues and the solver and grid of every later call
\* are those of that attempt.
C11_TierRecording ==
    puzzle # NoValue =>
        /\ GridAttempts = {Len(log)}
        /\ Len(log) > 0
        /\ LET a == log[Len(log)]
           IN  /\ puzzle[1].wordTier = a.tier
               /\ a.words_by_length =
                      create_tiered_word_list(words_ordered, puzzle[1].wordTier)
               /\ words_by_length = a.words_by_length
               /\ puzzle[1].grid = a.returned
               /\ puzzle[1].words = get_words(slots, a.returned[1])
               /\ \A c \in called : c.solver = Len(log) /\ c.grid = a.returned

\* C11 witness: a puzzle was returned from a grid found at tier 1, after the
\* five tier-0 attempts
C11_PuzzleFromTierOne ==
    /\ puzzle # NoValue
    /\ puzzle[1].wordTier = 1
    /\ Len(log) > 5
    /\ called # {}

\* every one of the attempts of both tiers was made and returned no grid
AllAttemptsFailed ==
    /\ Len(log) = 10
    /\ \A n \in 1 .. 10 : log[n].outcome = "none"
    /\ \A n \in 1 .. 5 : log[n].tier = 0 /\ log[n + 5].tier = 1

\* C12: when the 5 attempts of tier 0 and the 5 attempts of tier 1 have all
\* failed and generate_puzzle has returned, it returned None (no puzzle and so
\* no grid), and none of print_grid, get_words, generate_clues and
\* build_puzzle_json was called.
C12_FinalFailure ==
    (gen_pc = "done" /\ AllAttemptsFailed) => (puzzle = NoValue /\ called = {})

\* C12 witness: generate_puzzle has returned after ten failed attempts
C12_ReturnedAfterTenFailures ==
    /\ gen_pc = "done"
    /\ AllAttemptsFailed
    /\ gen_grid = NoValue

\* both of the two seeded runs are over, and in neither did the attempt cap
\* or the clock stop anything
BothRunsUnlimited ==
    /\ run = 2
    /\ pc = "done"
    /\ breached = {}
    /\ first_outcome[1].breached = {}

\* C13: two runs of the solver with the same template, the same dictionary
\* and the same random seed, neither stopped by a limit, end with the same
\* outcome: the same success, the same grid, the same attempts and the same
\* backtracks, whatever the iteration order of the word sets in each run.
C13_SeedDeterminism ==
    BothRunsUnlimited =>
        /\ success = first_outcome[1].success
        /\ solution = first_outcome[1].solution
        /\ attempts = first_outcome[1].attempts
        /\ backtracks = first_outcome[1].backtracks

\* the word fits the slot in grid g: every cell of the slot is empty or holds
\* the letter the word has there
Fits(g, slot, word) ==
    \A p \in 1 .. Len(slot.positions) :
        LET c == g[slot.positions[p][1]][slot.positions[p][2]]
        IN  c = None \/ c = word[p]

RECURSIVE Fillable(_, _, _, _, _)
\* the slots ss[i], ss[i + 1], ... can be given pairwise distinct words of wbl,
\* none of them in used, that agree with the letters of g and with each other
\* in every shared cell
Fillable(ss, wbl, g, used, i) ==
    IF i > Len(ss) THEN TRUE
    ELSE \E w \in wbl[ss[i].length] \ used :
            /\ Fits(g, ss[i], w)
            /\ Fillable(ss, wbl, place_word(g, ss[i], w), used \cup {w}, i + 1)

\* there is an assignment of pairwise distinct dictionary words to all slots
\* of the template that agrees on every intersection
Satisfiable == Fillable(extracted, words_by_length, NewGrid(layout), {}, 1)

\* solve() has returned False and neither the attempt-cap check nor any
\* timeout check has failed
ExhaustedFalse ==
    /\ pc = "done"
    /\ success = Value(FALSE)
    /\ breached = {}

\* C14: if solve() returns False without the attempt-cap check or a timeout
\* check ever having failed, no assignment of pairwise distinct dictionary
\* words to all slots agrees on every intersection: on a satisfiable
\* dictionary with the limits not reached a solution is returned.
C14_ExhaustedIsComplete == ExhaustedFalse => ~Satisfiable

\* the dictionary has no word of some length a slot of the template has
MissingLength(ss, wbl) == \E i \in 1 .. Len(ss) : wbl[ss[i].length] = {}

\* neither check of solve has failed and the time-out has not passed by the
\* time get_solution reports
NoLimitHit == breached = {} /\ now - start_time < TIMEOUT_SECONDS

C16_NoGridAfterFailure ==
    /\ (pc = "done" /\ success = Value(FALSE)) => solution = NoValue
    /\ \A n \in 1 .. Len(log) :
          (log[n].outcome = "none") => log[n].returned = NoValue
    /\ \A c \in called :
          c.fn \in {"print_grid", "get_words", "build_puzzle_json"} =>
              /\ c.solver \in GridAttempts
              /\ c.grid # NoValue
              /\ c.grid = log[c.solver].returned
              /\ c.solver = Len(log)
              /\ success = Value(TRUE)
              /\ c.grid = Value(grid)

\* C16 witness: the calls behind the loops were made after an attempt that
\* had failed and one that returned a grid
C16_CalledAfterAFailedAttempt ==
    /\ called # {}
    /\ Len(log) > 1
    /\ log[1].outcome = "none"
    /\ log[1].returned = NoValue

\* the two slots are different and share a cell
Crosses(a, b) == a # b /\ PosSet(a) \cap PosSet(b) # {}

\* some cell of the slot holds no letter in grid g
NotFullyFilled(g, slot) ==
    \E p \in 1 .. Len(slot.positions) :
        g[slot.positions[p][1]][slot.positions[p][2]] = None

\* C17: whenever solve recurses after placing a word into the slot at its
\* order position (forward_check has returned True), every slot that shares a
\* cell with that slot and is not fully filled has at least one candidate
\* under the grid and used_words the recursion starts from.
C17_ForwardCheck ==
    [][(pc = "solving" /\ stack # <<>> /\ Len(stack') = Len(stack) + 1) =>
          \A i \in SlotIds :
              (Crosses(slots[i], At(slots, Top.slot_index))
                    /\ NotFullyFilled(grid', slots[i])) =>
                  get_matching_words_fast(letter_index, words_by_length, grid',
                                          used_words', slots[i]) # {}]_vars

\* the cell belongs to a slot at an order position before i (counted from 0)
SharedWithEarlier(cell, i) ==
    \E j \in 0 .. (i - 1) : cell \in PosSet(At(slots, j))

\* what remove_word is to leave of grid g when the word of the slot at order
\* position i is taken out
GridAfterUndo(g, i) ==
    [row \in Idx |-> [col \in Idx |->
        IF <<row, col>> \in PosSet(At(slots, i)) /\ ~SharedWithEarlier(<<row, col>>, i)
        THEN None
        ELSE g[row][col]]]

\* C18: when the placement for the slot at order position i is undone, the
\* cells of the slot that are shared with no slot at an order position below
\* i are cleared, every other cell of the grid keeps what it held with the
\* word in place (cells shared with earlier slots keep their letters), and
\* the word is no longer in used_words.
C18_BacktrackFrame ==
    [][backtracks' = backtracks + 1 =>
          LET i == Top.slot_index
              word == IF ret = NoValue THEN placed'[i] ELSE Top.word
              g == IF ret = NoValue THEN place_word(grid, At(slots, i), word)
                   ELSE grid
          IN  /\ grid' = GridAfterUndo(g, i)
              /\ word \notin used_words']_vars

\* the words of the dictionary of the slot's length that have the grid's
\* letter at every filled cell of the slot, without the used words; none when
\* the index has no entry for the length
MatchingWords(slot) ==
    IF slot.length \notin DOMAIN letter_index THEN {}
    ELSE {w \in words_by_length[slot.length] : Fits(grid, slot, w)} \ used_words

\* the sequence lists every element of the set once and nothing else
IsOrderingOf(order, S) ==
    /\ \A a, b \in 1 .. Len(order) : order[a] = order[b] => a = b
    /\ {order[a] : a \in 1 .. Len(order)} = S

OrderedByDifficulty ==
    \A i \in 1 .. (Len(slots) - 1) :
        \/ Len(slots[i].intersections) > Len(slots[i + 1].intersections)
        \/ /\ Len(slots[i].intersections) = Len(slots[i + 1].intersections)
           /\ slots[i].length >= slots[i + 1].length

\* the solver's order holds every extracted slot once and nothing else
PermutationOfExtracted ==
    /\ Len(slots) = Len(extracted)
    /\ \A e \in 1 .. Len(extracted) :
          Cardinality({i \in SlotIds : slots[i] = extracted[e]}) =
          Cardinality({j \in 1 .. Len(extracted) : extracted[j] = extracted[e]})

\* C20: the solver's slot order is sorted by decreasing number of
\* intersections, ties broken by decreasing length; it is a permutation of
\* the extracted slots; and no step from the call of get_solution to its
\* return changes it.
C20_SlotOrdering ==
    /\ [](OrderedByDifficulty /\ PermutationOfExtracted)
    /\ [][(pc \in {"ready", "solving"}) => (slots' = slots)]_vars

\* C20 witness: a solve has ended after backtracking on a template whose
\* sorted order differs from the extracted one
C20_SortedOrderAfterSolve ==
    /\ pc = "done"
    /\ backtracks > 0
    /\ slots # extracted
    /\ \E i \in 1 .. (Len(slots) - 1) :
          Len(slots[i].intersections) > Len(slots[i + 1].intersections)

\* get_solution has failed and reported its reason
FailureReported == pc = "done" /\ success = Value(FALSE)

\* C21: when get_solution fails, the reason is "exhausted" whenever no limit
\* check of the run has failed (neither the attempt-cap check nor a timeout
\* check in solve or in a forward-check probe), and it is "max attempts" only
\* when the attempt-cap check has failed; so a search that ends on its own
\* with attempts = MAX_ATTEMPTS is reported as "exhausted".
C21_FailureReason ==
    FailureReported =>
        /\ breached = {} => reason = "exhausted"
        /\ reason = "max attempts" => "max_attempts" \in breached

\* the step is a turn of "for word in candidates" that calls place_word: the
\* activation on top of the stack takes one more word from its list
PlacesWord ==
    /\ pc = "solving" /\ ret = NoValue /\ stack # <<>> /\ Top.at = "loop"
    /\ Len(stack') >= Len(stack)
    /\ stack'[Len(stack)].k = Top.k + 1

\* the step enters solve: "self.attempts += 1"
EntersSolve == attempts' = attempts + 1

\* C22: once a limit check has failed inside solve (the attempt cap, or the
\* timeout seen in solve or in a forward-check probe), the solver places no
\* further word and does not enter solve again, at a deeper or a sibling
\* position, before the top-level solve has returned.
C22_UnwindAfterBreach ==
    [][(pc = "solving" /\ breached # {}) => (~PlacesWord /\ ~EntersSolve)]_vars

\* the cell is on the grid and is not a block
Playable(lay, r, c) == r \in Idx /\ c \in Idx /\ lay[r][c] # "#"

\* the n cells from <<r, c>> on in the direction, in increasing order
RunCells(direction, r, c, n) ==
    [p \in 1 .. n |->
        IF direction = "across" THEN <<r, c + p - 1>> ELSE <<r + p - 1, c>>]

\* the n cells from <<r, c>> on are playable and have a block or the grid
\* edge before the first and behind the last of them
IsMaximalRun(lay, direction, r, c, n) ==
    LET cells == RunCells(direction, r, c, n)
        dr == IF direction = "across" THEN 0 ELSE 1
        dc == IF direction = "across" THEN 1 ELSE 0
    IN  /\ \A p \in 1 .. n : Playable(lay, cells[p][1], cells[p][2])
        /\ ~Playable(lay, r - dr, c - dc)
        /\ ~Playable(lay, r + n * dr, c + n * dc)

\* where a maximal run of at least two playable cells starts, and its length
RunStarts(lay) ==
    {t \in {"across", "down"} \X Cells \X (2 .. GRID_SIZE) :
        IsMaximalRun(lay, t[1], t[2][1], t[2][2], t[3])}

\* the maximal runs of at least two playable cells, across and down
MaximalRuns(lay) ==
    {<<t[1], RunCells(t[1], t[2][1], t[2][2], t[3])>> : t \in RunStarts(lay)}

\* C23: extract_slots returns exactly one slot for every maximal across run
\* and every maximal down run of at least two playable cells, and no other
\* slot: the positions of a slot are the cells of its run in increasing
\* order, all playable, bounded by a block or the grid edge at both ends;
\* length is the number of positions and at least 2; a run of one cell gives
\* no slot.
C23_SlotStructure ==
    pc = "extracted" =>
        /\ LET runs == MaximalRuns(layout)
           IN  /\ {<<At(extracted, a).direction, At(extracted, a).positions>> :
                      a \in ExtractedIds} = runs
               /\ Len(extracted) = Cardinality(runs)
        /\ \A a \in ExtractedIds :
              /\ At(extracted, a).length = Len(At(extracted, a).positions)
              /\ At(extracted, a).length >= 2

\* C23 witness: slots were extracted from a pattern in which a playable cell
\* lies alone between blocks or edges in its row, and one in its column
C23_SingleCellRunSkipped ==
    /\ pc = "extracted"
    /\ Len(extracted) > 0
    /\ \E c \in Cells : IsMaximalRun(layout, "across", c[1], c[2], 1)
    /\ \E c \in Cells : IsMaximalRun(layout, "down", c[1], c[2], 1)

\* the buckets of the index that hold the word, as <<length, position, letter>>
BucketsOf(word) ==
    {b \in {<<length, pos, letter>> :
                length \in DOMAIN letter_index, pos \in 0 .. (GRID_SIZE - 1), letter \in Letters} :
        /\ b[2] < b[1]
        /\ word \in letter_index[b[1]][b[2]][b[3]]}

\* C24: for every length L of words_by_length, every position p below L and
\* every letter c, index[L][p][c] is exactly the set of the words w of
\* words_by_length[L] with w[p] = c; every word is in exactly L buckets, one
\* for each position, all of its own length.
C24_LetterIndex ==
    pc = "indexed" =>
        /\ DOMAIN letter_index = DOMAIN words_by_length
        /\ \A length \in DOMAIN words_by_length :
              /\ DOMAIN letter_index[length] = 0 .. (length - 1)
              /\ \A pos \in 0 .. (length - 1) :
                    /\ DOMAIN letter_index[length][pos] = Letters
                    /\ \A letter \in Letters :
                          letter_index[length][pos][letter] =
                              {w \in words_by_length[length] : At(w, pos) = letter}
        /\ \A length \in DOMAIN words_by_length :
              \A w \in words_by_length[length] :
                  /\ Cardinality(BucketsOf(w)) = length
                  /\ \A b \in BucketsOf(w) : b[1] = length
                  /\ {b[2] : b \in BucketsOf(w)} = 0 .. (length - 1)

\* C24 witness: an index was built from a list with words of every length
\* from 3 to 5, two of which share a bucket
C24_SharedBucket ==
    /\ pc = "indexed"
    /\ \A length \in 3 .. 5 :
          length \in DOMAIN words_by_length /\ words_by_length[length] # {}
    /\ \E length \in DOMAIN letter_index, pos \in 0 .. (GRID_SIZE - 1), letter \in Letters :
          pos < length /\ Cardinality(letter_index[length][pos][letter]) >= 2

\* every slot of the solver reads a word of its length from the dictionary
AllSlotsReadDictionaryWords ==
    \A s \in SlotIds :
        /\ slots[s].length \in DOMAIN words_by_length
        /\ ReadWord(grid, slots[s]) \in words_by_length[slots[s].length]

AllSlotsFilled == \A s \in SlotIds : ~NotFullyFilled(grid, slots[s])

AtSolveEntry == pc = "solving" /\ ret = NoValue /\ stack # <<>> /\ Top.at = "enter"

\* C26: at every entry to solve(i) the slots at the order positions below i
\* are all fully filled, used_words holds exactly i words, and used_words is
\* the set of the words those i slots spell in the grid.
C26_SearchState ==
    AtSolveEntry =>
        LET i == Top.slot_index
        IN  /\ \A j \in 0 .. (i - 1) : ~NotFullyFilled(grid, At(slots, j))
            /\ Cardinality(used_words) = i
            /\ used_words = {ReadWord(grid, At(slots, j)) : j \in 0 .. (i - 1)}

-----------------------------------------------------------------------------
(* termination of solve *)

\* the solvers the program itself constructs: every catalog template and
\* dictionary, MAX_ATTEMPTS as the class sets it
InitLive == Init /\ MAX_ATTEMPTS = DEFAULT_MAX_ATTEMPTS

\* where the run is: every step of get_solution and solve changes it
position == <<pc, stack, attempts>>

\* get_solution runs in one thread that nothing suspends: whenever a step of
\* it can be taken, one is taken
SpecLive == InitLive /\ [][Next]_vars /\ WF_position(Next)

\* get_solution has got the result of solve(), True or False
SolveReturned == pc = "done" /\ success \in {Value(TRUE), Value(FALSE)}

\* the activations of solve on the stack are those of solve(0), solve(1), ...
\* in this order, so there are never more than one per slot and one for the
\* base case
DepthBounded ==
    /\ Len(stack) <= Len(slots) + 1
    /\ \A d \in 1 .. Len(stack) : stack[d].slot_index = d - 1

\* C27: on every catalog template and with every dictionary, solve() returns
\* True or False in every run, among them the runs in which neither the attempt
\* cap nor the timeout is reached; the recursion is never deeper than the
\* number of slots plus the base case.
C27_Termination == []DepthBounded /\ <>SolveReturned

\* solve() has returned after a search with backtracking under the program's
\* own cap, without any limit having been reached
C27_ReturnedWithoutLimit ==
    /\ SolveReturned
    /\ MAX_ATTEMPTS = DEFAULT_MAX_ATTEMPTS
    /\ breached = {}
    /\ backtracks > 0
    /\ attempts > Len(slots) + 1

====
